---------------------------- MODULE Spec2Model ----------------------------
(***************************************************************************)
(* Model of the Dynamips manager of gns3-server                             *)
(* (gns3server/modules/dynamips/__init__.py, class Dynamips).               *)
(*                                                                          *)
(* The manager runs on one cooperative scheduler: a coroutine runs          *)
(* atomically from one suspension point (yield from) to the next.  Every    *)
(* action below is one such atomic stretch of one handler.  The device,     *)
(* router, hypervisor and project objects are collaborators whose code is   *)
(* outside this file; their calls complete with a nondeterministic outcome. *)
(***************************************************************************)
EXTENDS Integers, FiniteSets, Sequences, TLC

(***************************************************************************)
(* Bounds of the model.                                                     *)
(***************************************************************************)
MaxDevices == 2        \* device objects constructed by create_device
MaxDeleteCalls == 2    \* delete() invocations followed on one device object
MaxGhostTasks == 2     \* _set_ghost_ios coroutines
MaxTimeout == 6        \* timeout of _wait_for_hypervisor, in clock ticks
MaxConnectTicks == 2   \* clock ticks one connection attempt can take

(***************************************************************************)
(* Input domains.                                                           *)
(***************************************************************************)
NoId == "none"                           \* device_id absent (None or "")
WellFormedIds == {"uuid-1", "uuid-2"}    \* strings uuid.UUID() accepts
MalformedIds == {"not-a-uuid"}           \* strings uuid.UUID() rejects
DeviceIds == WellFormedIds \cup MalformedIds

NoProject == "none"                      \* project_id absent
KnownProjects == {"p1", "p2"}            \* projects the ProjectManager holds
UnknownProjects == {"px"}
ProjectIds == KnownProjects \cup UnknownProjects

Handles == 1..MaxDevices                 \* identities of device objects
NoDevice == 0

\* Artifact files of a project's module working directory, <<project, name>>.
GhostFile(p) == <<p, "c3725-image.ghost">>
LockFile(p) == <<p, "c3725_i1_lock">>
GhostPaths == {GhostFile(p) : p \in KnownProjects}
NoPath == <<"none", "none">>
Platforms == {"c7200", "c3725"}
GhostTasks == 1..MaxGhostTasks

VARIABLES
    devices,      \* self._devices: device id -> device object (NoDevice: absent)
    dev,          \* the device objects: handle -> fields
    gone,         \* ids removed by a completed delete_device, not re-registered
    ghost_files,  \* self._ghost_files: the primed ghost file paths
    gtask,        \* the ghost_ios_support / _set_ghost_ios coroutines
    un,           \* the unload coroutine
    pcl,          \* the project_closed coroutine
    vm,           \* the router update_vm_settings works on
    uv,           \* the update_vm_settings coroutine
    nio,          \* the create_nio coroutine
    wh,           \* the _wait_for_hypervisor coroutine
    cfg           \* the create_vm_configs coroutine

regVars == <<devices, dev, gone>>
ghostVars == <<ghost_files, gtask>>
settingsVars == <<vm, uv>>
callVars == <<nio, wh, cfg>>
vars == <<devices, dev, gone, ghost_files, gtask, un, pcl, vm, uv, nio, wh, cfg>>

\* What the actions of one component leave alone.
notRegistry == <<ghost_files, gtask, un, pcl, settingsVars, callVars>>
notGhost == <<devices, dev, gone, un, pcl, settingsVars, callVars>>
notUnload == <<devices, dev, gone, ghost_files, gtask, pcl, settingsVars, callVars>>
notProject == <<devices, dev, gone, gtask, un, settingsVars, callVars>>
notSettings == <<devices, dev, gone, ghost_files, gtask, un, pcl, callVars>>
notNio == <<devices, dev, gone, ghost_files, gtask, un, pcl, settingsVars, wh, cfg>>
notWait == <<devices, dev, gone, ghost_files, gtask, un, pcl, settingsVars, nio, cfg>>
notConfigs == <<devices, dev, gone, ghost_files, gtask, un, pcl, settingsVars, nio, wh>>

\* A device object: delCalls counts the invocations of its delete() by
\* delete_device, delWait the delete_device coroutines suspended in one of
\* them.  The delete() tasks of project_closed are in pcl.
FreeDevice ==
    [status |-> "free", id |-> NoId, project |-> NoProject,
     delCalls |-> 0, delWait |-> 0]

(***************************************************************************)
(* Collaborators.                                                           *)
(***************************************************************************)
\* ProjectManager.get_project: raises HTTPNotFound for an unknown project.
ProjectExists(project_id) == project_id \in KnownProjects

\* uuid.UUID(device_id, version=4): raises ValueError for a malformed string.
ValidUUID(device_id) == device_id \in WellFormedIds

(***************************************************************************)
(* get_device (lines 202-229), as a function of the registry.               *)
(***************************************************************************)
get_device(device_id, project_id) ==
    IF project_id # NoProject /\ ~ProjectExists(project_id)
    THEN [kind |-> "NotFound", device |-> NoDevice]
    ELSE IF ~ValidUUID(device_id)
    THEN [kind |-> "InvalidArgument", device |-> NoDevice]
    ELSE IF devices[device_id] = NoDevice
    THEN [kind |-> "NotFound", device |-> NoDevice]
    ELSE IF project_id # NoProject /\ dev[devices[device_id]].project # project_id
    THEN [kind |-> "NotFound", device |-> NoDevice]
    ELSE [kind |-> "ok", device |-> devices[device_id]]

(***************************************************************************)
(* create_device (lines 183-200).                                           *)
(***************************************************************************)
UsedIds == {dev[h].id : h \in {x \in Handles : dev[x].status # "free"}}

\* str(uuid4()): a well-formed identifier no device has been given yet.
FreshIds == WellFormedIds \ UsedIds

NextHandle == CHOOSE h \in Handles :
                  /\ dev[h].status = "free"
                  /\ \A g \in Handles : g < h => dev[g].status # "free"

\* An object nothing refers to any more is reclaimed: it is in no registry
\* slot, no coroutine waits on it, and its delete() has been invoked.
Registered(h) == dev[h].status = "created" /\ devices[dev[h].id] = h

Collect(heap, reg) ==
    [h \in Handles |->
        IF /\ heap[h].status = "created"
           /\ reg[heap[h].id] # h
           /\ heap[h].delWait = 0
           /\ heap[h].delCalls > 0
           /\ h \notin un.pending \cup pcl.pending
        THEN FreeDevice ELSE heap[h]]

\* One more invocation of delete(); the count is followed up to MaxDeleteCalls.
CountDelete(n) == IF n < MaxDeleteCalls THEN n + 1 ELSE n

RegistryWhileCreatingEager(id, h) == [devices EXCEPT ![id] = h]

\* Lines 197-198: the new object is put in no registry slot before
\* device.create() is awaited.
RegistryWhileCreating(id, h) == devices

\* Up to the suspension in device.create().
create_device(project_id, device_id) ==
    /\ UNCHANGED notRegistry
    /\ IF ~ProjectExists(project_id)
       THEN UNCHANGED regVars         \* get_project raised HTTPNotFound
       ELSE \E id \in (IF device_id = NoId THEN FreshIds ELSE {device_id}) :
            /\ \E h \in Handles : dev[h].status = "free"
            /\ dev' = [dev EXCEPT ![NextHandle] =
                          [FreeDevice EXCEPT !.status = "creating", !.id = id,
                                             !.project = project_id]]
            /\ devices' = RegistryWhileCreating(id, NextHandle)
            /\ UNCHANGED gone

\* self._devices[device.id] = device (line 199).
RegisterDevice(h) == [devices EXCEPT ![dev[h].id] = h]

\* device.create() returned: register the device and return it.
create_device_done(h) ==
    /\ UNCHANGED notRegistry
    /\ dev[h].status = "creating"
    /\ devices' = RegisterDevice(h)
    /\ dev' = Collect([dev EXCEPT ![h].status = "created"], devices')
    /\ gone' = gone \ {dev[h].id}

\* device.create() raised: the exception leaves create_device, the object is
\* dropped.
create_device_fail(h) ==
    /\ UNCHANGED notRegistry
    /\ dev[h].status = "creating"
    /\ dev' = [dev EXCEPT ![h] = FreeDevice]
    /\ UNCHANGED <<devices, gone>>

(***************************************************************************)
(* delete_device (lines 231-244).                                           *)
(***************************************************************************)
\* Up to the suspension in device.delete(); get_device's exception, if any,
\* leaves delete_device.
delete_device(device_id) ==
    LET r == get_device(device_id, NoProject) IN
    /\ UNCHANGED notRegistry
    /\ IF r.kind # "ok"
       THEN UNCHANGED regVars
       ELSE /\ dev[r.device].delWait < MaxDeleteCalls
            /\ dev' = [dev EXCEPT ![r.device].delCalls = CountDelete(@),
                                  ![r.device].delWait = @ + 1]
            /\ UNCHANGED <<devices, gone>>

RemoveDeviceSkipped(id) == devices

\* del self._devices[device.id] (line 243).
RemoveDevice(id) == [devices EXCEPT ![id] = NoDevice]

\* device.delete() returned: remove the device from the registry, return it.
\* The del raises KeyError when the id is no longer a key.
delete_device_done(h) ==
    /\ UNCHANGED notRegistry
    /\ dev[h].delWait > 0
    /\ IF devices[dev[h].id] = NoDevice
       THEN /\ dev' = Collect([dev EXCEPT ![h].delWait = @ - 1], devices)
            /\ UNCHANGED <<devices, gone>>
       ELSE /\ devices' = RemoveDevice(dev[h].id)
            /\ dev' = Collect([dev EXCEPT ![h].delWait = @ - 1], devices')
            /\ gone' = gone \cup {dev[h].id}

\* device.delete() raised: the exception leaves delete_device.
delete_device_fail(h) ==
    /\ UNCHANGED notRegistry
    /\ dev[h].delWait > 0
    /\ dev' = Collect([dev EXCEPT ![h].delWait = @ - 1], devices)
    /\ UNCHANGED <<devices, gone>>

(***************************************************************************)
(* _set_ghost_ios (lines 401-441), reached through ghost_ios_support        *)
(* (lines 329-334).  pc names the call the coroutine is suspended in.       *)
(***************************************************************************)
IdleTask == [pc |-> "idle", path |-> NoPath, platform |-> "none",
             prime |-> "none", torn |-> FALSE]

\* The calls on the throwaway router, in the order of lines 419-434.
PrimingCalls(platform) ==
    IF platform = "c7200"
    THEN <<"create", "set_image", "set_npe", "set_ghost_status",
           "set_ghost_file", "set_ram", "start", "stop", "clean_delete">>
    ELSE <<"create", "set_image", "set_ghost_status",
           "set_ghost_file", "set_ram", "start", "stop", "clean_delete">>

PrimingPcs == {"create", "set_image", "set_npe", "set_ghost_status",
               "set_ghost_file", "set_ram", "start", "stop", "clean_delete"}

CallAfter(platform, pc) ==
    LET calls == PrimingCalls(platform)
        i == CHOOSE k \in 1..Len(calls) : calls[k] = pc
    IN calls[i + 1]

\* ghost_file_path not in self._ghost_files (line 414).
NotPrimed(path) == path \notin ghost_files

AddGhostFileSkipped(path) == ghost_files

\* self._ghost_files.add(ghost_file_path) (line 430).
AddGhostFile(path) == ghost_files \cup {path}

\* Lines 438-441: the vm is switched to the ghost file when it does not use
\* it yet and os.path.isfile(ghost_file) holds; both are inputs.
ConsumerPcs == {"vm_set_ghost_status", "done"}

\* The call, up to the first suspension.
set_ghost_ios(t, path, platform, mmap) ==
    /\ gtask[t].pc = "idle"
    /\ \A u \in GhostTasks : u < t => gtask[u].pc # "idle"
    /\ UNCHANGED <<notGhost, ghost_files>>
    /\ IF ~mmap
       THEN gtask' = [gtask EXCEPT ![t] =
                [IdleTask EXCEPT !.pc = "raised", !.path = path, !.platform = platform]]
       ELSE IF NotPrimed(path)
       THEN gtask' = [gtask EXCEPT ![t] =
                [IdleTask EXCEPT !.pc = "create", !.path = path, !.platform = platform,
                                 !.prime = "started"]]
       ELSE \E next \in ConsumerPcs :
            gtask' = [gtask EXCEPT ![t] =
                [IdleTask EXCEPT !.pc = next, !.path = path, !.platform = platform,
                                 !.prime = "skipped"]]

\* The awaited call returned.
ghost_return(t) ==
    LET g == gtask[t] IN
    /\ g.pc \in PrimingPcs \cup {"vm_set_ghost_status", "vm_set_ghost_file"}
    /\ UNCHANGED notGhost
    /\ CASE g.pc = "stop" ->
              /\ ghost_files' = AddGhostFile(g.path)
              /\ gtask' = [gtask EXCEPT ![t].pc = "clean_delete", ![t].prime = "ok",
                                        ![t].torn = TRUE]
         [] g.pc = "clean_delete" ->
              /\ \E next \in ConsumerPcs : gtask' = [gtask EXCEPT ![t].pc = next]
              /\ UNCHANGED ghost_files
         [] g.pc = "vm_set_ghost_status" ->
              /\ gtask' = [gtask EXCEPT ![t].pc = "vm_set_ghost_file"]
              /\ UNCHANGED ghost_files
         [] g.pc = "vm_set_ghost_file" ->
              /\ gtask' = [gtask EXCEPT ![t].pc = "done"]
              /\ UNCHANGED ghost_files
         [] OTHER ->
              /\ gtask' = [gtask EXCEPT ![t].pc = CallAfter(g.platform, g.pc)]
              /\ UNCHANGED ghost_files

\* The awaited call raised DynamipsError.
ghost_raise(t) ==
    LET g == gtask[t] IN
    /\ g.pc \in PrimingPcs \cup {"vm_set_ghost_status", "vm_set_ghost_file"}
    /\ UNCHANGED <<notGhost, ghost_files>>
    /\ CASE g.pc \in {"start", "stop"} ->
              \* except DynamipsError: raise; finally: clean_delete (lines 431-434)
              gtask' = [gtask EXCEPT ![t].pc = "clean_delete", ![t].prime = "failed",
                                     ![t].torn = TRUE]
         [] g.pc = "clean_delete" ->
              \* raised inside finally, caught at line 435
              \E next \in ConsumerPcs : gtask' = [gtask EXCEPT ![t].pc = next]
         [] g.pc \in {"vm_set_ghost_status", "vm_set_ghost_file"} ->
              \* outside every try: leaves _set_ghost_ios
              gtask' = [gtask EXCEPT ![t].pc = "raised"]
         [] OTHER ->
              \* lines 419-426, caught at line 435
              \E next \in ConsumerPcs :
                  gtask' = [gtask EXCEPT ![t].pc = next, ![t].prime = "failed"]

(***************************************************************************)
(* unload (lines 117-133).                                                  *)
(***************************************************************************)
IdleUnload == [pc |-> "idle", registered |-> {}, pending |-> {}, stopped |-> {},
               failed |-> {}, result |-> "none"]

\* Lines 122-124: one stop() task per value of self._devices.
UnloadTargets == {devices[id] : id \in {i \in DeviceIds : devices[i] # NoDevice}}

UnloadResultRaising(failed) == IF failed = {} THEN "ok" ELSE "error"

\* Lines 128-133: every exception of a stop() task is logged and dropped.
UnloadResult(failed) == "ok"

\* BaseManager.unload (line 120) is defined outside this module's file; it
\* is taken to stop the base manager's own resources and return normally.
BaseManagerUnload == "ok"

\* The call, up to the suspension in BaseManager.unload.
unload ==
    /\ un.pc \in {"idle", "done"}
    /\ un' = [IdleUnload EXCEPT !.pc = "base"]
    /\ UNCHANGED notUnload

\* BaseManager.unload returned: the stop() tasks are created and awaited
\* (asyncio.wait); with no device there is nothing to wait for.
unload_stop_all ==
    /\ un.pc = "base"
    /\ BaseManagerUnload = "ok"
    /\ un' = [un EXCEPT !.registered = {h \in Handles : Registered(h)},
                        !.pending = UnloadTargets,
                        !.pc = IF UnloadTargets = {} THEN "done" ELSE "wait",
                        !.result = IF UnloadTargets = {} THEN "ok" ELSE "none"]
    /\ UNCHANGED notUnload

\* One task's device.hypervisor.stop() returned.
hypervisor_stop_done(h) ==
    /\ un.pc = "wait"
    /\ h \in un.pending
    /\ un' = [un EXCEPT !.pending = @ \ {h}, !.stopped = @ \cup {h}]
    /\ UNCHANGED notUnload

\* One task's device.hypervisor.stop() raised.
hypervisor_stop_fail(h) ==
    /\ un.pc = "wait"
    /\ h \in un.pending
    /\ un' = [un EXCEPT !.pending = @ \ {h}, !.failed = @ \cup {h}]
    /\ UNCHANGED notUnload

\* asyncio.wait returned: every task is done; collect the outcomes, return.
unload_collect ==
    /\ un.pc = "wait"
    /\ un.pending = {}
    /\ un' = [un EXCEPT !.pc = "done", !.result = UnloadResult(un.failed)]
    /\ UNCHANGED notUnload

(***************************************************************************)
(* project_closed (lines 135-171).                                          *)
(***************************************************************************)
\* targets, matched, removed, kept and forgot record what the call has done:
\* the devices it deletes, the files glob returned, the files removed, the
\* files whose removal failed, the files it took out of the ghost set.
IdleClose == [pc |-> "idle", project |-> NoProject, targets |-> {}, pending |-> {},
              deleted |-> {}, failed |-> {}, matched |-> {}, files |-> {},
              cur |-> NoPath, removed |-> {}, kept |-> {}, forgot |-> {},
              result |-> "none"]

\* Lines 144-146: one delete() task per value of self._devices.
CloseTargets(project) == {devices[id] : id \in {i \in DeviceIds : devices[i] # NoDevice}}

\* Lines 157-162: the files the five glob patterns can match in the module
\* working directory of the project.
SweepFiles(project) == {GhostFile(project), LockFile(project)}

\* Lines 166-167, run before os.remove is issued for the file.
ForgetGhostFile(file) == ghost_files \ {file}

\* Lines 163-171 from the head of the loop to the next suspension in
\* os.remove, or to the end of the list.
SweepOn(c, files) ==
    IF files = {}
    THEN /\ pcl' = [c EXCEPT !.pc = "done", !.files = {}, !.cur = NoPath, !.result = "ok"]
         /\ UNCHANGED ghost_files
    ELSE \E f \in files :
         /\ ghost_files' = ForgetGhostFile(f)
         /\ pcl' = [c EXCEPT !.pc = "sweep", !.files = files \ {f}, !.cur = f,
                             !.forgot = @ \cup ({f} \cap ghost_files)]

\* Lines 157-162: glob returns the matching files present on disk.
SweepStart(c) ==
    \E files \in SUBSET SweepFiles(c.project) :
        SweepOn([c EXCEPT !.matched = files], files)

\* The call, up to the suspension in asyncio.wait, or in the first os.remove
\* when there is no device.
project_closed(project) ==
    /\ pcl.pc \in {"idle", "done"}
    /\ UNCHANGED notProject
    /\ LET targets == CloseTargets(project)
           c == [IdleClose EXCEPT !.project = project, !.targets = targets,
                                  !.pending = targets]
       IN IF targets = {}
          THEN SweepStart(c)
          ELSE /\ pcl' = [c EXCEPT !.pc = "wait"]
               /\ UNCHANGED ghost_files

\* One task's device.delete() returned.
project_delete_done(h) ==
    /\ pcl.pc = "wait"
    /\ h \in pcl.pending
    /\ pcl' = [pcl EXCEPT !.pending = @ \ {h}, !.deleted = @ \cup {h}]
    /\ UNCHANGED <<notProject, ghost_files>>

\* One task's device.delete() raised.
project_delete_fail(h) ==
    /\ pcl.pc = "wait"
    /\ h \in pcl.pending
    /\ pcl' = [pcl EXCEPT !.pending = @ \ {h}, !.failed = @ \cup {h}]
    /\ UNCHANGED <<notProject, ghost_files>>

\* asyncio.wait returned: the outcomes are collected (lines 150-154) and the
\* sweep begins.
project_closed_collect ==
    /\ pcl.pc = "wait"
    /\ pcl.pending = {}
    /\ SweepStart(pcl)
    /\ UNCHANGED notProject

SweepAbortOnError(c) ==
    /\ pcl' = [c EXCEPT !.pc = "done", !.cur = NoPath, !.result = "OSError"]
    /\ UNCHANGED ghost_files

\* Lines 169-171: os.remove raised OSError: logged, the loop continues.
SweepAfterError(c) == SweepOn(c, c.files)

\* os.remove returned for the current file.
os_remove_done ==
    /\ pcl.pc = "sweep"
    /\ SweepOn([pcl EXCEPT !.removed = @ \cup {pcl.cur}], pcl.files)
    /\ UNCHANGED notProject

\* os.remove raised OSError for the current file.
os_remove_fail ==
    /\ pcl.pc = "sweep"
    /\ SweepAfterError([pcl EXCEPT !.kept = @ \cup {pcl.cur}])
    /\ UNCHANGED notProject

(***************************************************************************)
(* update_vm_settings (lines 443-481).                                      *)
(***************************************************************************)
None == "None"
Absent == "absent"                         \* the key is not in the dict
ADAPTER_MATRIX == {"NM-1E", "NM-4E"}      \* two of the names of lines 82-98
WIC_MATRIX == {"WIC-1T", "WIC-2T"}        \* two of the names of lines 100-102
RamSizes == {"128", "256"}               \* values of the ram attribute
SettingNames == {"ram", "slot1", "wic0"}

\* The settings dicts: each name is absent or has a value; a slot or WIC
\* value may be a name neither matrix knows.
SettingsDicts ==
    {d \in [SettingNames -> RamSizes \cup ADAPTER_MATRIX \cup WIC_MATRIX
                                \cup {None, Absent, "bogus"}] :
        /\ d["ram"] \in RamSizes \cup {Absent}
        /\ d["slot1"] \in ADAPTER_MATRIX \cup {None, Absent, "bogus"}
        /\ d["wic0"] \in WIC_MATRIX \cup {None, Absent}}

\* The router: slot 0 is empty or holds a mainboard adapter with one WIC bay.
VMStates ==
    {v \in [ram : RamSizes, slot0 : {None, "C1700-MB-1ETH"},
            slot1 : ADAPTER_MATRIX \cup {None}, wic0 : WIC_MATRIX \cup {None}] :
        v.slot0 = None => v.wic0 = None}

DefaultVM == [ram |-> "128", slot0 |-> None, slot1 |-> None, wic0 |-> None]

IdleUpdate == [pc |-> "idle", settings |-> [n \in SettingNames |-> Absent],
               todo |-> {}, name |-> "none", rebind |-> FALSE, run |-> 0, calls |-> 0]

HardwareCalls == {"slot_add_binding", "slot_remove_binding", "install_wic", "uninstall_wic"}
AwaitedCalls == HardwareCalls \cup {"set_ram"}

SlotBindCallNoRemove(current, adapter_name) == "slot_add_binding"

\* Lines 464-466: the call issued first for slotN = a known adapter.
SlotBindCall(current, adapter_name) ==
    IF current # None /\ current # adapter_name
    THEN "slot_remove_binding" ELSE "slot_add_binding"

\* Lines 475-477: the call issued first for wicN = a known WIC.
WicInstallCall(current, wic_name) ==
    IF current # None /\ current # wic_name
    THEN "uninstall_wic" ELSE "install_wic"

\* The call, and the second call with the same settings once the first has
\* returned.
update_vm_settings(settings) ==
    /\ \/ uv.pc = "idle"
       \/ uv.pc = "done" /\ uv.run = 1 /\ settings = uv.settings
    /\ uv' = [IdleUpdate EXCEPT !.pc = "loop", !.settings = settings,
                                !.todo = {n \in SettingNames : settings[n] # Absent},
                                !.run = uv.run + 1]
    /\ UNCHANGED <<vm, notSettings>>

\* Issue call c for setting n and suspend in it.
Await(n, c, rebind) ==
    uv' = [uv EXCEPT !.pc = c, !.name = n, !.todo = @ \ {n}, !.rebind = rebind,
                     !.calls = IF c \in HardwareCalls THEN @ + 1 ELSE @]

\* Nothing to do for setting n.
Skip(n) == uv' = [uv EXCEPT !.todo = @ \ {n}]

\* One iteration of the loop of line 452, up to its first suspension; the
\* dict is iterated in any order.
update_vm_settings_item ==
    /\ uv.pc = "loop"
    /\ UNCHANGED <<vm, notSettings>>
    /\ IF uv.todo = {}
       THEN uv' = [uv EXCEPT !.pc = "done"]
       ELSE \E n \in uv.todo :
            LET value == uv.settings[n] IN
            CASE n = "ram" ->
                   \* hasattr(vm, name) and the value differs: the setter
                   IF vm.ram # value THEN Await(n, "set_ram", FALSE) ELSE Skip(n)
              [] n = "slot1" /\ value \in ADAPTER_MATRIX ->
                   Await(n, SlotBindCall(vm.slot1, value),
                         SlotBindCall(vm.slot1, value) = "slot_remove_binding")
              [] n = "slot1" /\ value = None ->
                   IF vm.slot1 # None
                   THEN Await(n, "slot_remove_binding", FALSE) ELSE Skip(n)
              [] n = "wic0" /\ value \in WIC_MATRIX ->
                   \* vm.slots[0].wics of an empty slot 0: AttributeError
                   IF vm.slot0 = None
                   THEN uv' = [uv EXCEPT !.pc = "fault", !.name = n]
                   ELSE Await(n, WicInstallCall(vm.wic0, value),
                              WicInstallCall(vm.wic0, value) = "uninstall_wic")
              [] n = "wic0" /\ value = None ->
                   IF vm.slot0 = None
                   THEN uv' = [uv EXCEPT !.pc = "fault", !.name = n]
                   ELSE IF vm.wic0 # None
                   THEN Await(n, "uninstall_wic", FALSE) ELSE Skip(n)
              [] OTHER -> Skip(n)

\* What the router is once the call has returned: a binding fills the slot
\* or WIC bay, a removal empties it, a setter stores the value.
RouterAfter(v, call, value) ==
    CASE call = "set_ram" -> [v EXCEPT !.ram = value]
      [] call = "slot_add_binding" -> [v EXCEPT !.slot1 = value]
      [] call = "slot_remove_binding" -> [v EXCEPT !.slot1 = None]
      [] call = "install_wic" -> [v EXCEPT !.wic0 = value]
      [] call = "uninstall_wic" -> [v EXCEPT !.wic0 = None]

\* The awaited call returned; a removal made to replace an adapter or WIC
\* is followed by the binding (lines 465-466, 476-477).
vm_call_return ==
    /\ uv.pc \in AwaitedCalls
    /\ UNCHANGED notSettings
    /\ vm' = RouterAfter(vm, uv.pc, uv.settings[uv.name])
    /\ uv' = IF uv.rebind
             THEN [uv EXCEPT !.pc = IF uv.pc = "slot_remove_binding"
                                    THEN "slot_add_binding" ELSE "install_wic",
                             !.rebind = FALSE, !.calls = @ + 1]
             ELSE [uv EXCEPT !.pc = "loop"]

\* The awaited call raised: the exception leaves update_vm_settings.
vm_call_raise ==
    /\ uv.pc \in AwaitedCalls
    /\ uv' = [uv EXCEPT !.pc = "raised"]
    /\ UNCHANGED <<vm, notSettings>>

(***************************************************************************)
(* create_nio (lines 336-399).  The reachability probe and the interface    *)
(* enumeration are synchronous; the only suspension is nio.create().        *)
(***************************************************************************)
NioTypes == {"nio_udp", "nio_generic_ethernet", "nio_linux_ethernet", "nio_tap",
             "nio_unix", "nio_vde", "nio_null"}
UnknownNioTypes == {"nio_bogus"}

\* win: sys.platform starts with "win"; reachable: sock.connect to
\* (rhost, rport) succeeds; found: get_windows_interfaces lists an interface
\* with the requested name.  probed, enumerated, constructed and created
\* record the probe, the enumeration, the NIO constructor and nio.create().
IdleNio == [pc |-> "idle", type |-> "none", win |-> FALSE, reachable |-> FALSE,
            found |-> FALSE, probed |-> FALSE, enumerated |-> FALSE,
            constructed |-> FALSE, created |-> FALSE, result |-> "none"]

FailsFastNever(type, win, reachable, found) == FALSE

\* The requests create_nio refuses before it constructs an NIO
\* (lines 356-357, 374-375, 380-381).
FailsFast(type, win, reachable, found) ==
    \/ type = "nio_udp" /\ ~reachable
    \/ type = "nio_generic_ethernet" /\ win /\ ~found
    \/ type = "nio_linux_ethernet" /\ win

\* The call, up to the suspension in nio.create() or to the raise.
create_nio(type, win, reachable, found) ==
    LET call == [IdleNio EXCEPT !.type = type, !.win = win, !.reachable = reachable,
                                !.found = found,
                                !.probed = (type = "nio_udp"),
                                !.enumerated = (type = "nio_generic_ethernet" /\ win)]
    IN
    /\ nio.pc \in {"idle", "done", "raised"}
    /\ UNCHANGED notNio
    /\ nio' = IF FailsFast(type, win, reachable, found)
              THEN [call EXCEPT !.pc = "raised", !.result = "DynamipsError"]
              ELSE IF type \in NioTypes
              THEN [call EXCEPT !.pc = "create", !.constructed = TRUE, !.created = TRUE]
              \* no branch taken: nio is still None at line 398
              ELSE [call EXCEPT !.pc = "raised", !.result = "AttributeError"]

\* nio.create() returned: the NIO is returned.
nio_create_return ==
    /\ nio.pc = "create"
    /\ nio' = [nio EXCEPT !.pc = "done", !.result = "ok"]
    /\ UNCHANGED notNio

\* nio.create() raised: the exception leaves create_nio.
nio_create_raise ==
    /\ nio.pc = "create"
    /\ nio' = [nio EXCEPT !.pc = "raised", !.result = "DynamipsError"]
    /\ UNCHANGED notNio

(***************************************************************************)
(* _wait_for_hypervisor (lines 263-289).  Time is counted in clock ticks    *)
(* from begin; elapsed is time.time() - begin.                              *)
(***************************************************************************)
PollTicks == 2         \* asyncio.sleep(0.01), in clock ticks
Timeouts == 1..MaxTimeout
ConnectTicks == 0..MaxConnectTicks

\* accepts: the port accepts a connection at some time of the call.
IdleWait == [pc |-> "idle", timeout |-> 0, accepts |-> FALSE, elapsed |-> 0,
             polls |-> 0, last_exception |-> "None", result |-> "none"]

\* The head of the loop (line 275) and what follows it: the next sleep, or
\* the raise of line 287 when no connection succeeded.
PollAgain(w) ==
    IF w.elapsed < w.timeout
    THEN [w EXCEPT !.pc = "sleep"]
    ELSE [w EXCEPT !.pc = "raised", !.result = "DynamipsError"]

\* The call, up to the suspension in asyncio.sleep.
wait_for_hypervisor(timeout, accepts) ==
    /\ wh.pc \in {"idle", "done", "raised"}
    /\ wh' = PollAgain([IdleWait EXCEPT !.timeout = timeout, !.accepts = accepts])
    /\ UNCHANGED notWait

\* asyncio.sleep(0.01) returned: open_connection is awaited.
sleep_return ==
    /\ wh.pc = "sleep"
    /\ wh' = [wh EXCEPT !.pc = "connect", !.elapsed = @ + PollTicks, !.polls = @ + 1]
    /\ UNCHANGED notWait

\* open_connection raised OSError after d ticks: continue (lines 280-282).
open_connection_raise(d) ==
    /\ wh.pc = "connect"
    /\ wh' = PollAgain([wh EXCEPT !.elapsed = @ + d, !.last_exception = "OSError"])
    /\ UNCHANGED notWait

\* open_connection returned after d ticks: break (lines 283-284, 289).
open_connection_return(d) ==
    /\ wh.pc = "connect"
    /\ wh.accepts
    /\ wh' = [wh EXCEPT !.pc = "done", !.elapsed = @ + d, !.result = "ok"]
    /\ UNCHANGED notWait

(***************************************************************************)
(* create_vm_configs (lines 483-503) and _create_config (lines 505-532).    *)
(* _create_config is synchronous; the suspensions are the vm.set_config     *)
(* calls.                                                                   *)
(***************************************************************************)
ConfigKinds == {"startup", "private"}
\* Config content is None or a string, here a sequence of pieces; <<>> is
\* the empty string.
NoContent == <<None>>
ConfigContents == {NoContent, <<>>, <<"hostname ", "R1">>, <<"hostname ", "%h">>,
                   <<"hostname ", "R1", "\r">>}
VmName == "R1"
NoFile == <<"no file">>

\* Lines 517-518: "!\n" is put in front, every "\r" is dropped, every %h
\* becomes the name of the router.
RECURSIVE ConfigText(_)
ConfigText(content) ==
    IF content = <<>> THEN <<>>
    ELSE IF Head(content) = "\r" THEN ConfigText(Tail(content))
    ELSE <<IF Head(content) = "%h" THEN VmName ELSE Head(content)>>
             \o ConfigText(Tail(content))

FileContent(content) == <<"!\n">> \o ConfigText(content)

\* os.path.join("configs", os.path.basename(path)) for the router of
\* dynamips_id 1 (lines 494-495, 532).
ConfigPath(kind) ==
    IF kind = "startup" THEN "configs/i1_startup-config.cfg"
                        ELSE "configs/i1_private-config.cfg"

\* attempted: the kinds _create_config was called for; made: the configs
\* directory exists; written: the kinds whose file was written; failed: those
\* for which _create_config raised; configured: the config paths
\* vm.set_config was invoked with; vm_config: the paths the router holds;
\* file: what each config file holds.
IdleConfigs == [pc |-> "idle", content |-> [k \in ConfigKinds |-> NoContent],
                attempted |-> {}, made |-> FALSE, written |-> {}, failed |-> {},
                configured |-> {}, vm_config |-> [k \in ConfigKinds |-> None],
                file |-> [k \in ConfigKinds |-> NoFile], result |-> "none"]

create_config_unchecked(kind, makedirs_ok, write_ok) ==
    [raised |-> FALSE, path |-> ConfigPath(kind)]

\* _create_config: DynamipsError when os.makedirs or the write raises
\* OSError, else the relative path.
create_config(kind, makedirs_ok, write_ok) ==
    IF makedirs_ok /\ write_ok
    THEN [raised |-> FALSE, path |-> ConfigPath(kind)]
    ELSE [raised |-> TRUE, path |-> "none"]

\* Lines 497-499 (startup) or 501-503 (private) for non-empty content, up
\* to the suspension in vm.set_config or to the raise.
WriteConfig(c, kind, makedirs_ok, write_ok) ==
    LET r == create_config(kind, makedirs_ok, write_ok)
        a == [c EXCEPT !.attempted = @ \cup {kind},
                       !.made = @ \/ makedirs_ok,
                       !.written = IF makedirs_ok /\ write_ok THEN @ \cup {kind} ELSE @,
                       !.file[kind] = IF makedirs_ok /\ write_ok
                                      THEN FileContent(c.content[kind]) ELSE @]
    IN IF r.raised
       THEN [a EXCEPT !.pc = "raised", !.failed = @ \cup {kind}, !.result = "DynamipsError"]
       ELSE [a EXCEPT !.pc = IF kind = "startup" THEN "set_startup" ELSE "set_private",
                      !.configured = @ \cup {r.path}]

\* Lines 501-503.
PrivateConfig(c, makedirs_ok, write_ok) ==
    IF c.content["private"] \notin {NoContent, <<>>}
    THEN WriteConfig(c, "private", makedirs_ok, write_ok)
    ELSE [c EXCEPT !.pc = "done", !.result = "ok"]

\* The call, up to its first suspension; held is vm.startup_config, None
\* or the startup-config of an earlier call.
create_vm_configs(startup_config_content, private_config_content, held, makedirs_ok, write_ok) ==
    LET c == [IdleConfigs EXCEPT !.content = [k \in ConfigKinds |->
                  IF k = "startup" THEN startup_config_content
                                   ELSE private_config_content],
                                 !.vm_config["startup"] = held]
    IN
    /\ cfg.pc \in {"idle", "done", "raised"}
    /\ cfg' = IF startup_config_content \notin {NoContent, <<>>}
              THEN WriteConfig(c, "startup", makedirs_ok, write_ok)
              ELSE PrivateConfig(c, makedirs_ok, write_ok)
    /\ UNCHANGED notConfigs

\* vm.set_config returned: the router holds the path.
set_config_return(makedirs_ok, write_ok) ==
    /\ cfg.pc \in {"set_startup", "set_private"}
    /\ cfg' = IF cfg.pc = "set_startup"
              THEN PrivateConfig([cfg EXCEPT !.vm_config["startup"] = ConfigPath("startup")],
                                 makedirs_ok, write_ok)
              ELSE [cfg EXCEPT !.pc = "done", !.result = "ok",
                               !.vm_config["private"] = ConfigPath("private")]
    /\ UNCHANGED notConfigs

\* vm.set_config raised: the exception leaves create_vm_configs.
set_config_raise ==
    /\ cfg.pc \in {"set_startup", "set_private"}
    /\ cfg' = [cfg EXCEPT !.pc = "raised", !.result = "DynamipsError"]
    /\ UNCHANGED notConfigs

(***************************************************************************)
(* Specification of the registry.                                           *)
(***************************************************************************)
InitManager ==
    /\ devices = [id \in DeviceIds |-> NoDevice]
    /\ dev = [h \in Handles |-> FreeDevice]
    /\ gone = {}
    /\ ghost_files = {}
    /\ gtask = [t \in GhostTasks |-> IdleTask]
    /\ un = IdleUnload
    /\ pcl = IdleClose
    /\ nio = IdleNio
    /\ wh = IdleWait
    /\ cfg = IdleConfigs

Init ==
    /\ InitManager
    /\ vm = DefaultVM
    /\ uv = IdleUpdate

Next ==
    \/ \E p \in ProjectIds, id \in DeviceIds \cup {NoId} : create_device(p, id)
    \/ \E h \in Handles : create_device_done(h)
    \/ \E h \in Handles : create_device_fail(h)
    \/ \E id \in DeviceIds : delete_device(id)
    \/ \E h \in Handles : delete_device_done(h)
    \/ \E h \in Handles : delete_device_fail(h)

Spec == Init /\ [][Next]_vars

(***************************************************************************)
(* Specification of the ghost image cache.                                  *)
(***************************************************************************)
NextGhost ==
    \/ \E t \in GhostTasks, path \in GhostPaths, platform \in Platforms, mmap \in BOOLEAN :
           set_ghost_ios(t, path, platform, mmap)
    \/ \E t \in GhostTasks : ghost_return(t)
    \/ \E t \in GhostTasks : ghost_raise(t)

SpecGhost == Init /\ [][NextGhost]_vars

(***************************************************************************)
(* Specification of the bulk shutdown: devices are created, then unloaded.  *)
(***************************************************************************)
NextCreate ==
    \/ \E p \in ProjectIds, id \in DeviceIds \cup {NoId} : create_device(p, id)
    \/ \E h \in Handles : create_device_done(h)
    \/ \E h \in Handles : create_device_fail(h)

NextUnload ==
    \/ NextCreate
    \/ unload
    \/ unload_stop_all
    \/ \E h \in Handles : hypervisor_stop_done(h)
    \/ \E h \in Handles : hypervisor_stop_fail(h)
    \/ unload_collect

SpecUnload == Init /\ [][NextUnload]_vars

(***************************************************************************)
(* Specification of project close: devices are created, projects closed.    *)
(***************************************************************************)
NextProject ==
    \/ NextCreate
    \/ \E p \in KnownProjects : project_closed(p)
    \/ \E h \in Handles : project_delete_done(h)
    \/ \E h \in Handles : project_delete_fail(h)
    \/ project_closed_collect
    \/ os_remove_done
    \/ os_remove_fail

SpecProject == Init /\ [][NextProject]_vars

(***************************************************************************)
(* Specification of the sweep of a project whose ghost image was primed.    *)
(***************************************************************************)
SweepGhostTasks == {1}

NextSweep ==
    \/ \E t \in SweepGhostTasks, path \in GhostPaths, platform \in Platforms, mmap \in BOOLEAN :
           set_ghost_ios(t, path, platform, mmap)
    \/ \E t \in SweepGhostTasks : ghost_return(t)
    \/ \E t \in SweepGhostTasks : ghost_raise(t)
    \/ \E p \in KnownProjects : project_closed(p)
    \/ os_remove_done
    \/ os_remove_fail

SpecSweep == Init /\ [][NextSweep]_vars

(***************************************************************************)
(* Specification of the settings reconciler: any router, any settings.      *)
(***************************************************************************)
InitSettings ==
    /\ InitManager
    /\ vm \in VMStates
    /\ uv = IdleUpdate

NextSettings ==
    \/ \E settings \in SettingsDicts : update_vm_settings(settings)
    \/ update_vm_settings_item
    \/ vm_call_return
    \/ vm_call_raise

SpecSettings == InitSettings /\ [][NextSettings]_vars

(***************************************************************************)
(* Specification of the NIO factory.                                        *)
(***************************************************************************)
NextNio ==
    \/ \E type \in NioTypes \cup UnknownNioTypes, win, reachable, found \in BOOLEAN :
           create_nio(type, win, reachable, found)
    \/ nio_create_return
    \/ nio_create_raise

SpecNio == Init /\ [][NextNio]_vars

(***************************************************************************)
(* Specification of the readiness polling.                                  *)
(***************************************************************************)
NextWait ==
    \/ \E timeout \in Timeouts, accepts \in BOOLEAN : wait_for_hypervisor(timeout, accepts)
    \/ sleep_return
    \/ \E d \in ConnectTicks : open_connection_raise(d)
    \/ \E d \in ConnectTicks : open_connection_return(d)

SpecWait == Init /\ [][NextWait]_vars

(***************************************************************************)
(* Specification of the config writer.                                      *)
(***************************************************************************)
NextConfigs ==
    \/ \E startup, private \in ConfigContents, makedirs_ok, write_ok \in BOOLEAN,
          held \in {None, ConfigPath("startup")} :
           create_vm_configs(startup, private, held, makedirs_ok, write_ok)
    \/ \E makedirs_ok, write_ok \in BOOLEAN : set_config_return(makedirs_ok, write_ok)
    \/ set_config_raise

SpecConfigs == Init /\ [][NextConfigs]_vars

(***************************************************************************)
(* Properties.                                                              *)
(***************************************************************************)
AnyProject == ProjectIds \cup {NoProject}

\* C1: whenever create_device returns a device D for project P, get_device
\* with D's id and P returns D at once, and get_device with D's id and any
\* other known project fails with NotFound.
C1_CreateThenGet ==
    [][\A h \in Handles :
          (dev[h].status = "creating" /\ dev'[h].status = "created") =>
              /\ get_device(dev[h].id, dev[h].project)' = [kind |-> "ok", device |-> h]
              /\ \A q \in KnownProjects \ {dev[h].project} :
                     get_device(dev[h].id, q)'.kind = "NotFound"]_vars

\* C2: once a delete_device(id) has completed, and until a device is
\* registered under id again, id is not in the registry, get_device(id)
\* fails with NotFound for every project argument, so a further
\* delete_device(id) fails with NotFound at its lookup, and no delete() is
\* invoked for delete_device on a device carrying that id.
C2_DeletedStaysGone ==
    /\ [](\A id \in gone :
             /\ devices[id] = NoDevice
             /\ \A p \in AnyProject : get_device(id, p).kind = "NotFound")
    /\ [][\A h \in Handles :
             (dev[h].status = "created" /\ dev[h].id \in gone /\ dev[h].id \in gone')
                 => dev'[h].delWait <= dev[h].delWait]_vars

C2_Witness ==
    \E id \in gone :
        /\ get_device(id, NoProject).kind = "NotFound"
        /\ \E h \in Handles : dev[h].status = "created" /\ dev[h].id # id

\* C3: get_device with a malformed device id fails with InvalidArgument
\* whatever the project argument is (absent, known, unknown).
C3_MalformedAlwaysInvalid ==
    \A id \in MalformedIds : \A p \in AnyProject :
        get_device(id, p).kind = "InvalidArgument"

\* C4: a _set_ghost_ios call made after another call has primed the same
\* ghost file path finds the path in the ghost set: it creates no throwaway
\* router and never calls start, stop or clean_delete, so the priming
\* sequence of the first call is the only one.
C4_SecondCallSkipsPriming ==
    [][\A t \in GhostTasks :
          /\ ( /\ gtask[t].pc = "idle"
               /\ gtask'[t].pc \notin {"idle", "raised"}
               /\ \E u \in GhostTasks \ {t} :
                      /\ gtask[u].pc \in {"done", "raised"}
                      /\ gtask[u].prime = "ok"
                      /\ gtask[u].path = gtask'[t].path )
             => gtask'[t].prime = "skipped"
          /\ gtask[t].prime = "skipped"
             => /\ gtask'[t].prime = "skipped"
                /\ gtask'[t].pc \notin PrimingPcs
                /\ ~gtask'[t].torn]_vars

C4_Witness ==
    \E t, u \in GhostTasks :
        /\ gtask[u].pc = "done" /\ gtask[u].prime = "ok" /\ gtask[u].torn
        /\ gtask[t].pc = "done" /\ gtask[t].prime = "skipped"
        /\ gtask[t].path = gtask[u].path

\* C5: for every ghost file path, at most one _set_ghost_ios coroutine has
\* ever started a priming sequence (created a throwaway router).
C5_AtMostOnePriming ==
    \A path \in GhostPaths :
        Cardinality({t \in GhostTasks :
                        gtask[t].path = path /\ gtask[t].prime \in {"started", "ok", "failed"}}) <= 1

\* C6: the second application of the same settings issues no
\* slot_add_binding, slot_remove_binding, install_wic or uninstall_wic.
C6_SecondApplicationSilent == uv.run = 2 => uv.calls = 0

\* C7: project_closed for project P invokes delete() only on devices that
\* P owns.
C7_OnlyOwnDevicesDeleted ==
    \A h \in pcl.pending : dev[h].project = pcl.project

\* C8: project_closed never ends with an error; the sweep runs only when
\* every device's delete() has completed, returned or raised; and when
\* project_closed returns, the removal of every matched file has been
\* attempted.
C8_CloseBestEffort ==
    /\ pcl.result \in {"none", "ok"}
    /\ pcl.pc \in {"sweep", "done"} => pcl.deleted \cup pcl.failed = pcl.targets
    /\ pcl.pc = "done" =>
           /\ pcl.result = "ok"
           /\ pcl.removed \cup pcl.kept = pcl.matched

C8_Witness ==
    /\ pcl.pc = "done"
    /\ pcl.deleted # {} /\ pcl.failed # {}
    /\ pcl.removed # {} /\ pcl.kept # {}

\* C9: when project_closed has returned, every file it took out of the
\* ghost set was removed: a ghost file whose removal failed is still in the
\* ghost set.
C9_GhostKeptOnFailedRemoval ==
    pcl.pc = "done" =>
        \A f \in pcl.kept : f \in pcl.forgot => f \in ghost_files

\* C10: unload never ends with an error; a stop() task is created for every
\* registered device; and unload returns only when every task has completed,
\* returned or raised.
C10_UnloadBestEffort ==
    /\ un.result \in {"none", "ok"}
    /\ un.pc \in {"wait", "done"} =>
           un.pending \cup un.stopped \cup un.failed = un.registered
    /\ un.pc = "done" => un.pending = {} /\ un.result = "ok"

C10_Witness ==
    /\ un.pc = "done"
    /\ un.stopped # {} /\ un.failed # {}

\* C11: create_nio fails fast.  A nio_udp request whose probe fails raises a
\* Dynamips error with no NIO constructed and no nio.create(); a
\* nio_linux_ethernet request on Windows raises with no interface
\* enumeration, no NIO constructed and no nio.create(); a
\* nio_generic_ethernet request on Windows whose name matches no enumerated
\* interface raises with no NIO constructed.
C11_CreateNioFailsFast ==
    nio.pc # "idle" =>
        /\ (nio.type = "nio_udp" /\ ~nio.reachable) =>
               /\ nio.pc = "raised" /\ nio.result = "DynamipsError"
               /\ nio.probed /\ ~nio.constructed /\ ~nio.created
        /\ (nio.type = "nio_linux_ethernet" /\ nio.win) =>
               /\ nio.pc = "raised" /\ nio.result = "DynamipsError"
               /\ ~nio.enumerated /\ ~nio.constructed /\ ~nio.created
        /\ (nio.type = "nio_generic_ethernet" /\ nio.win /\ ~nio.found) =>
               /\ nio.pc = "raised" /\ nio.result = "DynamipsError"
               /\ nio.enumerated /\ ~nio.constructed /\ ~nio.created

C11_Witness ==
    /\ nio.pc = "raised" /\ nio.type = "nio_udp" /\ ~nio.reachable
    /\ nio.result = "DynamipsError" /\ ~nio.constructed

\* C12: create_nio with a type that is none of the supported variants fails
\* with a Dynamips error and creates no NIO.
C12_UnknownTypeRejected ==
    (nio.pc # "idle" /\ nio.type \in UnknownNioTypes) =>
        /\ nio.pc = "raised" /\ nio.result = "DynamipsError"
        /\ ~nio.constructed /\ ~nio.created

\* C13: a device whose create() is still awaited is in no registry slot
\* and, when no other device object carries its id, get_device does not
\* resolve the id for any project argument; a device enters the registry
\* only in the step in which its create() returns; and the step in which
\* its create() raises leaves the registry as it is.
C13_NoPartialRegistration ==
    /\ [](\A h \in Handles :
             dev[h].status = "creating" =>
                 /\ devices[dev[h].id] # h
                 /\ (\A g \in Handles \ {h} : dev[g].id # dev[h].id) =>
                        \A p \in AnyProject : get_device(dev[h].id, p).kind # "ok")
    /\ [][\A h \in Handles :
             /\ (\E id \in DeviceIds : devices[id] # h /\ devices'[id] = h) =>
                    dev[h].status = "creating" /\ dev'[h].status = "created"
             /\ (dev[h].status = "creating" /\ dev'[h].status = "free") =>
                    devices' = devices]_vars

C13_Witness ==
    \E h, g \in Handles :
        /\ dev[h].status = "creating" /\ dev[h].id \in WellFormedIds
        /\ get_device(dev[h].id, dev[h].project).kind = "NotFound"
        /\ Registered(g)

\* C14: while a delete_device coroutine is suspended in device.delete(),
\* get_device still resolves the device's id.
C14_ResolvableWhileDeleting ==
    \A h \in Handles :
        (dev[h].status = "created" /\ dev[h].delWait > 0) =>
            get_device(dev[h].id, NoProject).kind = "ok"

\* C15: _wait_for_hypervisor against a port that never accepts a connection
\* never reports success and ends with the error carrying the last
\* connection error, at an elapsed time in [timeout, timeout + poll interval).
C15_TimeoutWindow ==
    (wh.pc \in {"done", "raised"} /\ ~wh.accepts) =>
        /\ wh.pc = "raised" /\ wh.result = "DynamipsError"
        /\ wh.last_exception = "OSError"
        /\ wh.elapsed >= wh.timeout
        /\ wh.elapsed < wh.timeout + PollTicks

\* C16: vm.set_config is invoked only with the relative path of a config
\* file whose directory creation and write both succeeded; when either
\* fails, create_vm_configs raises a Dynamips error and set_config is not
\* invoked for that file; empty or absent content causes neither a write
\* nor a set_config call.
C16_ConfiguredOnlyIfWritten ==
    /\ cfg.configured \subseteq {ConfigPath(k) : k \in ConfigKinds}
    /\ \A k \in ConfigKinds :
           /\ ConfigPath(k) \in cfg.configured =>
                  /\ k \in cfg.written /\ cfg.made
                  /\ cfg.file[k] = FileContent(cfg.content[k])
           /\ k \in cfg.failed =>
                  /\ cfg.pc = "raised" /\ cfg.result = "DynamipsError"
                  /\ ConfigPath(k) \notin cfg.configured
           /\ cfg.content[k] \in {NoContent, <<>>} =>
                  /\ k \notin cfg.attempted /\ cfg.file[k] = NoFile
                  /\ ConfigPath(k) \notin cfg.configured

C16_Witness ==
    /\ cfg.pc = "raised"
    /\ "startup" \in cfg.written /\ ConfigPath("startup") \in cfg.configured
    /\ "private" \in cfg.failed /\ cfg.file["private"] = NoFile

\* C17: a _set_ghost_ios call whose priming sequence failed has torn the
\* throwaway router down with clean_delete.
C17_FailedPrimingTornDown ==
    \A t \in GhostTasks :
        (gtask[t].prime = "failed" /\ gtask[t].pc \notin PrimingPcs) => gtask[t].torn

C19_SingleTeardown ==
    \A h \in Handles : dev[h].delWait <= 1

\* C20: when project_closed has returned, no device whose delete() it
\* completed is still in the registry.
C20_ClosedDevicesUnregistered ==
    pcl.pc = "done" => \A h \in pcl.deleted : ~Registered(h)

\* C21: every device whose create() returned and whose delete() has not
\* been invoked is in the registry under its own id.
C21_CreatedStaysRegistered ==
    \A h \in Handles :
        (dev[h].status = "created" /\ dev[h].delCalls = 0) => devices[dev[h].id] = h

=============================================================================
